---- MODULE Spec2Model ----
(***************************************************************************)
(* A model of the request handlers of api_yamdb (api/views.py,             *)
(* api/serializers.py, users/migrations/0002).  The state is the content   *)
(* of the relational store (users, reviews, comments), the confirmation    *)
(* codes made and mailed, the requests that are between two of their       *)
(* database accesses, and the outcome of the last handler step.            *)
(*                                                                         *)
(* Five specifications share the state:                                    *)
(*   SpecSignup   concurrent signup requests, one action per database or   *)
(*                mail access of SignupView.post;                          *)
(*   SpecAccount  signup, token exchange and the self-profile endpoint,    *)
(*                each request handled start to end;                       *)
(*   SpecReviews  concurrent review requests, the create request split     *)
(*                between serializer.is_valid and perform_create;          *)
(*   SpecScores   review requests with every score of ScoreInputs, each    *)
(*                request handled start to end;                            *)
(*   SpecComments reviews and comments under stored and missing titles,    *)
(*                each request handled start to end.                       *)
(***************************************************************************)
EXTENDS Integers, FiniteSets, TLC

VARIABLES
    users,      \* rows of the user table
    sreq,       \* signup requests in flight, per worker
    generated,  \* confirmation codes made by make_token
    mail,       \* messages send_mail delivered
    expired,    \* codes older than the token generator's timeout
    used,       \* (username, code) pairs that were exchanged for a token
    reviews,    \* rows of the review table
    comments,   \* rows of the comment table
    rreq,       \* review create requests between is_valid and perform_create
    nextReview, \* next primary key of the review table
    nextComment,\* next primary key of the comment table
    resp        \* outcome of the last handler step

vars == <<users, sreq, generated, mail, expired, used, reviews, comments,
          rreq, nextReview, nextComment, resp>>

authVars == <<users, sreq, generated, mail, expired, used>>
reviewVars == <<reviews, comments, rreq, nextReview, nextComment>>

----------------------------------------------------------------------------
(* Input domains and bounds *)

Workers == {"w1", "w2"}

\* "" stands for a username the serializer's field validation refuses
SignupUsernames == {"alice", "bob", ""}
Emails == {"a@x", "b@x"}
Roles == {"user", "moderator", "admin"}

None == "-"

MaxReviewId == 2
MaxCommentId == 2

----------------------------------------------------------------------------
(* The user table *)

Root == [id |-> 1, username |-> "root", email |-> "r@x", role |-> "admin"]

ById(us, id) == CHOOSE u \in us : u.id = id

\* the shape of every handler outcome; a handler fills in what applies
NoResp ==
    [op |-> "none", step |-> None, status |-> 0, err |-> None,
     username |-> None, email |-> None, role |-> None,
     caller |-> 0, code |-> None, token |-> 0, flag |-> FALSE,
     title |-> 0, review |-> 0, score |-> 0]

Outcome(fields) == fields @@ NoResp

----------------------------------------------------------------------------
(* Signup: SignupView.post *)

PairExistsSwapped(us, u, e) == \E x \in us : x.username = e /\ x.email = e
\* User.objects.filter(username=..., email=...).exists()
PairExists(us, u, e) == \E x \in us : x.username = u /\ x.email = e

UsernameUniqueOff(us, u) == FALSE
\* the username column is unique=True: a row already holds this username
UsernameTaken(us, u) == \E x \in us : x.username = u

\* SignupSerializer.is_valid: the username field is required and not blank,
\* and, the column being unique, carries a UniqueValidator
SignupValid(us, u, e) == u # "" /\ ~UsernameTaken(us, u)

\* User.objects.create_user(username, email): the next primary key, the
\* role column's default
NewUser(us, u, e) ==
    [id |-> Cardinality(us) + 1, username |-> u, email |-> e, role |-> "user"]

\* default_token_generator.make_token(user): a keyed hash over the user's
\* primary key, password, last login and email (and the time it was made).
\* No handler changes a password or a last login, so the code is identified
\* by the primary key and the email it was made for.
make_token(user) == [pk |-> user.id, email |-> user.email]

\* a code no make_token produced, and a blank confirmation_code field
Garbage == [pk |-> 0, email |-> None]
Blank == [pk |-> 0, email |-> ""]

Idle == [pc |-> "idle", username |-> None, email |-> None, uid |-> 0,
         clash |-> FALSE]

\* lines 69-74: the (username, email) lookup and the early 200
SignupPost(w, u, e) ==
    /\ sreq[w].pc = "idle"
    /\ IF PairExists(users, u, e)
       THEN /\ resp' = Outcome([op |-> "signup", step |-> "exists",
                                status |-> 200, username |-> u, email |-> e])
            /\ UNCHANGED sreq
       ELSE /\ sreq' = [sreq EXCEPT ![w] =
                          [pc |-> "validate", username |-> u, email |-> e,
                           uid |-> 0,
                           clash |-> \E x \in users : x.username = u]]
            /\ resp' = Outcome([op |-> "signup", step |-> "exists",
                                username |-> u, email |-> e])
    /\ UNCHANGED <<users, generated, mail, expired, used>>
    /\ UNCHANGED reviewVars

\* lines 75-76: serializer.is_valid(raise_exception=True)
SignupValidate(w) ==
    /\ sreq[w].pc = "validate"
    /\ LET u == sreq[w].username
           e == sreq[w].email
       IN IF SignupValid(users, u, e)
          THEN /\ sreq' = [sreq EXCEPT ![w].pc = "create"]
               /\ resp' = Outcome([op |-> "signup", step |-> "validate",
                                   username |-> u, email |-> e,
                                   flag |-> sreq[w].clash])
          ELSE /\ sreq' = [sreq EXCEPT ![w] = Idle]
               /\ resp' = Outcome([op |-> "signup", step |-> "validate",
                                   status |-> 400, username |-> u,
                                   email |-> e, flag |-> sreq[w].clash])
    /\ UNCHANGED <<users, generated, mail, expired, used>>
    /\ UNCHANGED reviewVars

\* lines 77-80: create_user; the unique username column refuses a second row
SignupCreateUser(w) ==
    /\ sreq[w].pc = "create"
    /\ LET u == sreq[w].username
           e == sreq[w].email
       IN IF UsernameTaken(users, u)
          THEN /\ sreq' = [sreq EXCEPT ![w] = Idle]
               /\ resp' = Outcome([op |-> "signup", step |-> "create",
                                   status |-> 500, username |-> u,
                                   email |-> e, flag |-> sreq[w].clash])
               /\ UNCHANGED users
          ELSE /\ users' = users \cup {NewUser(users, u, e)}
               /\ sreq' = [sreq EXCEPT ![w].pc = "mail",
                                       ![w].uid = NewUser(users, u, e).id]
               /\ resp' = Outcome([op |-> "signup", step |-> "create",
                                   username |-> u, email |-> e,
                                   flag |-> sreq[w].clash])
    /\ UNCHANGED <<generated, mail, expired, used>>
    /\ UNCHANGED reviewVars

\* lines 81-93: make_token, send_mail(fail_silently=False), the 200.
\* delivered = FALSE is send_mail raising: the request ends in an error.
SignupSendMail(w, delivered) ==
    /\ sreq[w].pc = "mail"
    /\ LET user == ById(users, sreq[w].uid)
           code == make_token(user)
       IN /\ generated' = generated \cup {code}
          /\ mail' = IF delivered
                     THEN mail \cup {[to |-> user.email, code |-> code]}
                     ELSE mail
          /\ resp' = Outcome([op |-> "signup", step |-> "mail",
                              status |-> IF delivered THEN 200 ELSE 500,
                              username |-> sreq[w].username,
                              email |-> sreq[w].email, caller |-> user.id,
                              flag |-> sreq[w].clash])
    /\ sreq' = [sreq EXCEPT ![w] = Idle]
    /\ UNCHANGED <<users, expired, used>>
    /\ UNCHANGED reviewVars


----------------------------------------------------------------------------
(* Signup handled start to end (no other request in between) *)

Signup(u, e, delivered) ==
    /\ IF PairExists(users, u, e)
       THEN /\ resp' = Outcome([op |-> "signup", step |-> "exists",
                                status |-> 200, username |-> u, email |-> e])
            /\ UNCHANGED <<users, generated, mail>>
       ELSE IF ~SignupValid(users, u, e)
       THEN /\ resp' = Outcome([op |-> "signup", step |-> "validate",
                                status |-> 400, username |-> u, email |-> e])
            /\ UNCHANGED <<users, generated, mail>>
       ELSE LET user == NewUser(users, u, e)
                code == make_token(user)
            IN /\ users' = users \cup {user}
               /\ generated' = generated \cup {code}
               /\ mail' = IF delivered
                          THEN mail \cup {[to |-> user.email, code |-> code]}
                          ELSE mail
               /\ resp' = Outcome([op |-> "signup", step |-> "mail",
                                   status |-> IF delivered THEN 200 ELSE 500,
                                   username |-> u, email |-> e,
                                   caller |-> user.id])
    /\ UNCHANGED <<sreq, expired, used>>
    /\ UNCHANGED reviewVars

----------------------------------------------------------------------------
(* Token exchange: GetTokenView.post *)

TokenUsernames == {"alice", "bob"}

\* the email the accounts of the token exchange sign up with; the
\* self-profile endpoint changes it to another
AccountEmails == {"a@x"}

\* default_token_generator.check_token(user, code): the code must be the
\* keyed hash of the user's present primary key, password, last login and
\* email, and not older than the generator's timeout
check_token(user, code) == code = make_token(user) /\ code \notin expired

TokenStatusNoNot(us, username, code) ==
    IF code = Blank THEN 400
    ELSE IF ~\E x \in us : x.username = username THEN 404
    ELSE IF check_token(CHOOSE x \in us : x.username = username, code)
    THEN 400
    ELSE 200
\* lines 99-108: TokenSerializer.is_valid (both fields required and not
\* blank), get_object_or_404 by username, the 400 on a failed check
TokenStatus(us, username, code) ==
    IF code = Blank THEN 400
    ELSE IF ~\E x \in us : x.username = username THEN 404
    ELSE IF ~check_token(CHOOSE x \in us : x.username = username, code)
    THEN 400
    ELSE 200

\* RefreshToken.for_user(user).access_token names the user and writes nothing
GetToken(username, code) ==
    /\ LET status == TokenStatus(users, username, code)
       IN /\ resp' = Outcome([op |-> "token", status |-> status,
                              username |-> username, code |-> code,
                              token |-> IF status = 200
                                        THEN (CHOOSE x \in users :
                                                x.username = username).id
                                        ELSE 0,
                              flag |-> <<username, code>> \in used])
          /\ used' = IF status = 200
                     THEN used \cup {<<username, code>>}
                     ELSE used
    /\ UNCHANGED <<users, sreq, generated, mail, expired>>
    /\ UNCHANGED reviewVars

\* time passes: every code made so far is older than the timeout
TimeoutElapses ==
    /\ expired # generated
    /\ expired' = generated
    /\ resp' = NoResp
    /\ UNCHANGED <<users, sreq, generated, mail, used>>
    /\ UNCHANGED reviewVars

----------------------------------------------------------------------------
(* Self-profile: UserViewSet.get_user_info *)

\* "bad" is no e-mail address; "bogus" is none of the role choices
PatchEmails == {None, "b@x", "bad"}
PatchRoles == {None, "user", "admin", "bogus"}

\* request.user.is_admin
is_admin(user) == user.role = "admin"

\* the fields of the payload UserSerializer writes (of those modelled)
UserSerializerFields == {"email", "role"}

ReadOnlyRoleForgotten == UserSerializerFields
\* ReadOnlyRole: UserSerializer with read_only_fields = ('role',)
ReadOnlyRoleFields == UserSerializerFields \ {"role"}

\* is_valid of a partial update: a read-only field of the payload is skipped
PatchValid(fields, email, role) ==
    /\ ("email" \in fields /\ email # None) => email \in Emails
    /\ ("role" \in fields /\ role # None) => role \in Roles

\* serializer.save() of a partial update
PatchSave(user, fields, email, role) ==
    [user EXCEPT
       !.email = IF "email" \in fields /\ email # None THEN email ELSE @,
       !.role = IF "role" \in fields /\ role # None THEN role ELSE @]

PatchMe(caller, email, role) ==
    /\ caller \in users
    /\ LET fields == IF is_admin(caller) THEN UserSerializerFields
                     ELSE ReadOnlyRoleFields
       IN IF PatchValid(fields, email, role)
          THEN /\ users' = (users \ {caller})
                             \cup {PatchSave(caller, fields, email, role)}
               /\ resp' = Outcome([op |-> "patch_me", status |-> 200,
                                   caller |-> caller.id, email |-> email,
                                   role |-> role, flag |-> is_admin(caller)])
          ELSE /\ resp' = Outcome([op |-> "patch_me", status |-> 400,
                                   caller |-> caller.id, email |-> email,
                                   role |-> role, flag |-> is_admin(caller)])
               /\ UNCHANGED users
    /\ UNCHANGED <<sreq, generated, mail, expired, used>>
    /\ UNCHANGED reviewVars

GetMe(caller) ==
    /\ caller \in users
    /\ resp' = Outcome([op |-> "get_me", status |-> 200,
                        caller |-> caller.id])
    /\ UNCHANGED authVars
    /\ UNCHANGED reviewVars

----------------------------------------------------------------------------
(* Reviews nested under a title: ReviewSerializer, ReviewViewSet *)

\* the stored titles; a path may also name title 3, which is not stored
Titles == {1, 2}
PathTitles == {1, 2, 3}
ReviewIds == 1..MaxReviewId

\* the scores a payload carries; NoScore is a payload without the field
NoScore == -1
ScoreInputs == {0, 1, 10, 11}
\* the payloads of the concurrent review requests: in range, out of range,
\* without a score
RaceScores == {10, 11, NoScore}
\* the title the requests that try every score are sent to
ScoreTitles == {1}

\* two users who signed up; an admin made the second a moderator
Alice == [id |-> 2, username |-> "alice", email |-> "a@x", role |-> "user"]
Bob == [id |-> 3, username |-> "bob", email |-> "b@x", role |-> "moderator"]
Callers == {Alice.id, Bob.id}

NoReview == [pc |-> "idle", caller |-> 0, title |-> 0, score |-> 0]

validate_scoreStrict(value) == 1 < value /\ value < 10
\* ReviewSerializer.validate_score: not 1 <= value <= 10 raises
validate_score(value) == 1 <= value /\ value <= 10

validateAnyMethod(revs, method, author, title_id) ==
    ~\E r \in revs : r.author = author /\ r.title = title_id
\* ReviewSerializer.validate: TRUE when it returns data, FALSE when it raises
validate(revs, method, author, title_id) ==
    IF method # "POST" THEN TRUE
    ELSE ~\E r \in revs : r.author = author /\ r.title = title_id

\* serializer.is_valid: the field validators first, validate() only when no
\* field failed; an update may leave the score out (PATCH), a create may not
SerializerError(revs, method, author, title_id, score) ==
    IF score = NoScore
    THEN IF method = "PATCH"
         THEN IF validate(revs, method, author, title_id)
              THEN None ELSE "unique"
         ELSE "required"
    ELSE IF ~validate_score(score) THEN "score"
    ELSE IF ~validate(revs, method, author, title_id) THEN "unique"
    ELSE None

UniquePerAuthorTitleOff(revs, author, title) == TRUE
\* the review table holds one row per (author, title): a second row is refused
UniquePerAuthorTitle(revs, author, title) ==
    ~\E r \in revs : r.author = author /\ r.title = title

\* IsAuthorModeratorAdminOrReadOnly on an object of a write request
MayWrite(caller, obj) ==
    \/ obj.author = caller
    \/ ById(users, caller).role \in {"moderator", "admin"}

\* get_queryset and the lookup by primary key inside it: title.reviews
ReviewsOfTitle(revs, title) ==
    IF title \in Titles THEN {r \in revs : r.title = title} ELSE {}

Saving == {w \in Workers : rreq[w].pc = "save"}

\* CreateModelMixin.create up to perform_create: serializer.is_valid
ReviewCreateValidate(w, caller, title, score) ==
    /\ rreq[w].pc = "idle"
    /\ nextReview + Cardinality(Saving) <= MaxReviewId
    /\ LET err == SerializerError(reviews, "POST", caller, title, score)
       IN IF err = None
          THEN /\ rreq' = [rreq EXCEPT ![w] =
                             [pc |-> "save", caller |-> caller,
                              title |-> title, score |-> score]]
               /\ resp' = Outcome([op |-> "review_create",
                                   step |-> "validate", caller |-> caller,
                                   title |-> title, score |-> score])
          ELSE /\ resp' = Outcome([op |-> "review_create",
                                   step |-> "validate", status |-> 400,
                                   err |-> err, caller |-> caller,
                                   title |-> title, score |-> score])
               /\ UNCHANGED rreq
    /\ UNCHANGED <<reviews, comments, nextReview, nextComment>>
    /\ UNCHANGED authVars

\* ReviewViewSet.perform_create: the title lookup, then the insert
ReviewCreateSave(w) ==
    /\ rreq[w].pc = "save"
    /\ LET caller == rreq[w].caller
           title == rreq[w].title
           score == rreq[w].score
       IN IF title \notin Titles
          THEN /\ resp' = Outcome([op |-> "review_create", step |-> "save",
                                   status |-> 404, err |-> "notfound",
                                   caller |-> caller, title |-> title,
                                   score |-> score])
               /\ UNCHANGED <<reviews, nextReview>>
          ELSE IF ~UniquePerAuthorTitle(reviews, caller, title)
          THEN /\ resp' = Outcome([op |-> "review_create", step |-> "save",
                                   status |-> 500, err |-> "integrity",
                                   caller |-> caller, title |-> title,
                                   score |-> score])
               /\ UNCHANGED <<reviews, nextReview>>
          ELSE /\ reviews' = reviews \cup
                     {[id |-> nextReview, author |-> caller,
                       title |-> title, score |-> score]}
               /\ nextReview' = nextReview + 1
               /\ resp' = Outcome([op |-> "review_create", step |-> "save",
                                   status |-> 201, caller |-> caller,
                                   title |-> title, score |-> score,
                                   review |-> nextReview])
    /\ rreq' = [rreq EXCEPT ![w] = NoReview]
    /\ UNCHANGED <<comments, nextComment>>
    /\ UNCHANGED authVars

\* UpdateModelMixin.update: get_object (404, then the object permission),
\* is_valid, save; author and title are read-only fields
ReviewUpdate(method, caller, title, rid, score) ==
    /\ LET found == {r \in ReviewsOfTitle(reviews, title) : r.id = rid}
           obj == CHOOSE r \in found : TRUE
           err == IF found = {} THEN "notfound"
                  ELSE IF ~MayWrite(caller, obj) THEN "forbidden"
                  ELSE SerializerError(reviews, method, caller, title, score)
           status == CASE err = "notfound" -> 404
                       [] err = "forbidden" -> 403
                       [] err = None -> 200
                       [] OTHER -> 400
       IN /\ reviews' = IF err = None /\ score # NoScore
                        THEN (reviews \ {obj})
                               \cup {[obj EXCEPT !.score = score]}
                        ELSE reviews
          /\ resp' = Outcome([op |-> "review_update", step |-> method,
                              status |-> status, err |-> err,
                              caller |-> caller, title |-> title,
                              review |-> rid, score |-> score])
    /\ UNCHANGED <<comments, rreq, nextReview, nextComment>>
    /\ UNCHANGED authVars

\* DestroyModelMixin.destroy: get_object, delete; the comments of the review
\* go with it
ReviewDelete(caller, title, rid) ==
    /\ LET found == {r \in ReviewsOfTitle(reviews, title) : r.id = rid}
           obj == CHOOSE r \in found : TRUE
           err == IF found = {} THEN "notfound"
                  ELSE IF ~MayWrite(caller, obj) THEN "forbidden"
                  ELSE None
           status == CASE err = "notfound" -> 404
                       [] err = "forbidden" -> 403
                       [] OTHER -> 204
       IN /\ reviews' = IF err = None THEN reviews \ {obj} ELSE reviews
          /\ comments' = IF err = None
                         THEN {c \in comments : c.review # rid}
                         ELSE comments
          /\ resp' = Outcome([op |-> "review_delete", status |-> status,
                              err |-> err, caller |-> caller,
                              title |-> title, review |-> rid])
    /\ UNCHANGED <<rreq, nextReview, nextComment>>
    /\ UNCHANGED authVars

\* a review create request handled start to end: is_valid, perform_create
ReviewCreate(caller, title, score) ==
    /\ nextReview <= MaxReviewId
    /\ LET verr == SerializerError(reviews, "POST", caller, title, score)
           err == IF verr # None THEN verr
                  ELSE IF title \notin Titles THEN "notfound"
                  ELSE IF ~UniquePerAuthorTitle(reviews, caller, title)
                  THEN "integrity"
                  ELSE None
           status == CASE err = None -> 201
                       [] err = "notfound" -> 404
                       [] err = "integrity" -> 500
                       [] OTHER -> 400
       IN /\ reviews' = IF err = None
                        THEN reviews \cup
                               {[id |-> nextReview, author |-> caller,
                                 title |-> title, score |-> score]}
                        ELSE reviews
          /\ nextReview' = IF err = None THEN nextReview + 1 ELSE nextReview
          /\ resp' = Outcome([op |-> "review_create", step |-> "save",
                              status |-> status, err |-> err,
                              caller |-> caller, title |-> title,
                              score |-> score,
                              review |-> IF err = None THEN nextReview
                                         ELSE 0])
    /\ UNCHANGED <<comments, rreq, nextComment>>
    /\ UNCHANGED authVars

----------------------------------------------------------------------------
(* Comments nested under a review of a title: CommentViewSet *)

\* "" is a payload whose text the serializer refuses
TextInputs == {"", "ok"}

ReviewOfAnyTitle(revs, review_id, title) == {r \in revs : r.id = review_id}
\* get_object_or_404(Title, id=title_id), then
\* get_object_or_404(Review, id=review_id, title=title): the rows found
ReviewOfTitle(revs, review_id, title) ==
    {r \in revs : r.id = review_id /\ r.title = title /\ title \in Titles}

\* CreateModelMixin.create with CommentViewSet.perform_create.  A comment row
\* holds its review; "title" remembers the title of the path that made it.
CommentCreate(caller, title, rid, text) ==
    /\ nextComment <= MaxCommentId
    /\ LET err == IF text = "" THEN "required"
                  ELSE IF ReviewOfTitle(reviews, rid, title) = {}
                  THEN "notfound"
                  ELSE None
           status == CASE err = None -> 201
                       [] err = "notfound" -> 404
                       [] OTHER -> 400
       IN /\ comments' = IF err = None
                         THEN comments \cup
                                {[id |-> nextComment, review |-> rid,
                                  author |-> caller, title |-> title]}
                         ELSE comments
          /\ nextComment' = IF err = None THEN nextComment + 1
                            ELSE nextComment
          /\ resp' = Outcome([op |-> "comment_create", status |-> status,
                              err |-> err, caller |-> caller,
                              title |-> title, review |-> rid,
                              flag |-> text # ""])
    /\ UNCHANGED <<reviews, rreq, nextReview>>
    /\ UNCHANGED authVars

\* ListModelMixin.list over CommentViewSet.get_queryset
CommentList(title, rid) ==
    /\ resp' = Outcome([op |-> "comment_list",
                        status |-> IF ReviewOfTitle(reviews, rid, title) = {}
                                   THEN 404 ELSE 200,
                        err |-> IF ReviewOfTitle(reviews, rid, title) = {}
                                THEN "notfound" ELSE None,
                        title |-> title, review |-> rid, flag |-> TRUE])
    /\ UNCHANGED reviewVars
    /\ UNCHANGED authVars

----------------------------------------------------------------------------
Init ==
    /\ users = {Root}
    /\ sreq = [w \in Workers |-> Idle]
    /\ generated = {}
    /\ mail = {}
    /\ expired = {}
    /\ used = {}
    /\ reviews = {}
    /\ comments = {}
    /\ rreq = [w \in Workers |-> NoReview]
    /\ nextReview = 1
    /\ nextComment = 1
    /\ resp = NoResp

NextSignup ==
    \/ \E w \in Workers, u \in SignupUsernames, e \in Emails : SignupPost(w, u, e)
    \/ \E w \in Workers : SignupValidate(w)
    \/ \E w \in Workers : SignupCreateUser(w)
    \/ \E w \in Workers, delivered \in BOOLEAN : SignupSendMail(w, delivered)

SpecSignup == Init /\ [][NextSignup]_vars

NextAccount ==
    \/ \E u \in SignupUsernames, e \in AccountEmails,
          delivered \in BOOLEAN :
          Signup(u, e, delivered)
    \/ \E username \in TokenUsernames, code \in generated \cup {Garbage, Blank} :
          GetToken(username, code)
    \/ TimeoutElapses
    \/ \E caller \in users, email \in PatchEmails, role \in PatchRoles :
          PatchMe(caller, email, role)
    \/ \E caller \in users : GetMe(caller)

SpecAccount == Init /\ [][NextAccount]_vars

\* the state after alice and bob signed up and bob was made a moderator
InitReviews ==
    /\ users = {Root, Alice, Bob}
    /\ sreq = [w \in Workers |-> Idle]
    /\ generated = {make_token(Alice), make_token(Bob)}
    /\ mail = {[to |-> Alice.email, code |-> make_token(Alice)],
               [to |-> Bob.email, code |-> make_token(Bob)]}
    /\ expired = {}
    /\ used = {}
    /\ reviews = {}
    /\ comments = {}
    /\ rreq = [w \in Workers |-> NoReview]
    /\ nextReview = 1
    /\ nextComment = 1
    /\ resp = NoResp

NextReviews ==
    \/ \E w \in Workers, caller \in Callers, title \in Titles,
          score \in RaceScores :
          ReviewCreateValidate(w, caller, title, score)
    \/ \E w \in Workers : ReviewCreateSave(w)
    \/ \E method \in {"PUT", "PATCH"}, caller \in Callers,
          title \in Titles, rid \in ReviewIds, score \in RaceScores :
          ReviewUpdate(method, caller, title, rid, score)
    \/ \E caller \in Callers, title \in Titles, rid \in ReviewIds :
          ReviewDelete(caller, title, rid)

SpecReviews == InitReviews /\ [][NextReviews]_vars

NextScores ==
    \/ \E caller \in Callers, title \in ScoreTitles,
          score \in ScoreInputs \cup {NoScore} :
          ReviewCreate(caller, title, score)
    \/ \E method \in {"PUT", "PATCH"}, caller \in Callers,
          title \in ScoreTitles, rid \in ReviewIds,
          score \in ScoreInputs \cup {NoScore} :
          ReviewUpdate(method, caller, title, rid, score)
    \/ \E caller \in Callers, title \in ScoreTitles, rid \in ReviewIds :
          ReviewDelete(caller, title, rid)

SpecScores == InitReviews /\ [][NextScores]_vars

NextComments ==
    \/ \E title \in PathTitles, score \in RaceScores :
          ReviewCreate(Alice.id, title, score)
    \/ \E title \in PathTitles, rid \in ReviewIds :
          ReviewDelete(Alice.id, title, rid)
    \/ \E title \in PathTitles, rid \in ReviewIds, text \in TextInputs :
          CommentCreate(Alice.id, title, rid, text)
    \/ \E title \in PathTitles, rid \in ReviewIds : CommentList(title, rid)

SpecComments == InitReviews /\ [][NextComments]_vars

----------------------------------------------------------------------------
(* Claims about signup (SpecSignup) *)

\* C5: a signup request whose (username, email) pair is that of a stored user
\* is answered 200 at the lookup, and that step changes neither the stored
\* users nor the codes made nor the mail delivered.
C5_ExistingPairIs200 ==
    [][(/\ resp'.op = "signup"
        /\ resp'.step = "exists"
        /\ \E x \in users :
             x.username = resp'.username /\ x.email = resp'.email)
       => (/\ resp'.status = 200
           /\ users' = users
           /\ generated' = generated
           /\ mail' = mail)]_vars

C5_Witness ==
    /\ resp.op = "signup"
    /\ resp.step = "exists"
    /\ resp.status = 200
    /\ \E x \in users : x.username = resp.username /\ x.email = resp.email

\* C8: whenever signup answers 200 for a (username, email) pair and no signup
\* request is in flight, the stored user of that pair has been sent a
\* confirmation code at that email, also when an earlier request for the pair
\* lost its mail.
C8_SignupOkImpliesCodeSent ==
    (/\ resp.op = "signup"
     /\ resp.status = 200
     /\ \A w \in Workers : sreq[w].pc = "idle")
    => \E x \in users :
         /\ x.username = resp.username
         /\ x.email = resp.email
         /\ \E m \in mail : m.to = x.email /\ m.code.pk = x.id

\* C10: no two stored users share a username, and a signup request whose
\* username was that of a stored user with another email when it arrived
\* creates no user, makes and sends no code, and ends in an error.
UniqueUsernames ==
    \A x \in users, y \in users : x.username = y.username => x = y

C10_UsernamesStayUnique ==
    /\ []UniqueUsernames
    /\ [][\A w \in Workers :
            (sreq[w].pc # "idle" /\ sreq[w].clash /\ sreq'[w] # sreq[w])
            => (/\ users' = users
                /\ generated' = generated
                /\ mail' = mail
                /\ sreq'[w].pc = "idle"
                /\ resp'.status \in {400, 500})]_vars

C10_Witness ==
    /\ resp.op = "signup"
    /\ resp.step = "validate"
    /\ resp.flag
    /\ resp.status = 400
    /\ \E x \in users : x.username = resp.username /\ x.email # resp.email

----------------------------------------------------------------------------
(* Claims about the token exchange and the self-profile (SpecAccount) *)

\* C4: a PATCH of the self-profile by a caller who is no admin leaves the
\* caller's role as it was, whatever role the payload names, and with a valid
\* email in the payload it is answered 200 and stores the email; by an admin,
\* with a role among the choices, it stores that role.  No step of signup,
\* token exchange or self-profile changes the role of a user who is no admin.
C4_RoleReadOnlyForNonAdmin ==
    [][/\ \A u \in users :
            u.role # "admin"
            => \E v \in users' : v.id = u.id /\ v.role = u.role
       /\ resp'.op = "patch_me"
          => LET before == ById(users, resp'.caller)
                 after == ById(users', resp'.caller)
                 emailOk == resp'.email \in Emails \cup {None}
             IN /\ (before.role # "admin" /\ emailOk)
                   => /\ resp'.status = 200
                      /\ resp'.email # None => after.email = resp'.email
                /\ (before.role = "admin" /\ emailOk /\ resp'.role \in Roles)
                   => /\ resp'.status = 200
                      /\ after.role = resp'.role]_vars

C4_Witness ==
    /\ resp.op = "patch_me"
    /\ resp.status = 200
    /\ ~resp.flag
    /\ resp.role = "admin"
    /\ resp.email = "b@x"
    /\ ById(users, resp.caller).role = "user"
    /\ ById(users, resp.caller).email = "b@x"
    /\ \E x \in users : x.id = Root.id /\ x.role = "user"

C7_CodeIsSingleUse ==
    (resp.op = "token" /\ resp.flag) => resp.status # 200

----------------------------------------------------------------------------
(* Claims about reviews (SpecReviews, SpecScores) *)

\* C1: a review create request by a user on a title on which that user has a
\* stored review is refused with a validation error at is_valid and changes
\* no stored review; a PUT or PATCH by that user on that review with a score
\* in 1..10 is not refused by the uniqueness check, is answered 200 and
\* stores the score.
C1_SecondCreateFailsUpdateSucceeds ==
    [][/\ (/\ resp'.op = "review_create"
           /\ resp'.step = "validate"
           /\ \E r \in reviews :
                r.author = resp'.caller /\ r.title = resp'.title)
          => (/\ resp'.status = 400
              /\ resp'.err \in {"unique", "score", "required"}
              /\ reviews' = reviews
              /\ rreq' = rreq)
       /\ (/\ resp'.op = "review_update"
           /\ resp'.score >= 1
           /\ resp'.score <= 10
           /\ \E r \in reviews :
                /\ r.id = resp'.review
                /\ r.title = resp'.title
                /\ r.author = resp'.caller)
          => (/\ resp'.status = 200
              /\ resp'.err = None
              /\ \E r \in reviews' :
                   /\ r.id = resp'.review
                   /\ r.author = resp'.caller
                   /\ r.title = resp'.title
                   /\ r.score = resp'.score)]_vars

C1_Witness ==
    /\ resp.op = "review_update"
    /\ resp.status = 200
    /\ resp.score = 10
    /\ \E r \in reviews :
         r.id = resp.review /\ r.author = resp.caller /\ r.score = 10
    /\ ById(users, resp.caller).role = "user"

\* C2: at most one stored review per (author, title), whatever the order in
\* which the validations and the saves of concurrent create requests, the
\* updates and the deletes happen.
C2_OneReviewPerAuthorTitle ==
    \A r1 \in reviews, r2 \in reviews :
        (r1.author = r2.author /\ r1.title = r2.title) => r1 = r2

\* two create requests of one user on one title both passed is_valid; the
\* first was stored and the save of the second was refused
C2_Witness ==
    /\ resp.op = "review_create"
    /\ resp.step = "save"
    /\ resp.err = "integrity"
    /\ \E r \in reviews : r.author = resp.caller /\ r.title = resp.title

\* C3: every stored review has a score in 1..10; a create or update request
\* whose payload reaches the serializer with a score fails the score check
\* exactly when the score is outside 1..10, and a request with such a score
\* is answered with an error (400 from the serializer) and changes no stored
\* review.
ScoresInRange == \A r \in reviews : r.score >= 1 /\ r.score <= 10

C3_ScoreBounds ==
    /\ []ScoresInRange
    /\ [][(resp'.op \in {"review_create", "review_update"}
           /\ resp'.score # NoScore)
          => LET out == resp'.score < 1 \/ resp'.score > 10
                 reached == \/ resp'.op = "review_create"
                            \/ resp'.err \notin {"notfound", "forbidden"}
             IN /\ reached => (resp'.err = "score" <=> out)
                /\ (reached /\ out) => resp'.status = 400
                /\ out => (resp'.status \notin {200, 201}
                           /\ reviews' = reviews)]_vars

C3_Witness ==
    /\ resp.op = "review_update"
    /\ resp.status = 200
    /\ resp.score = 1
    /\ \E r \in reviews : r.id = resp.review /\ r.score = 1
    /\ \E r \in reviews : r.score = 10

----------------------------------------------------------------------------
(* Claims about dangling path references (SpecComments) *)

\* the request of the outcome names a title that is not stored or, for a
\* comment request, a review that is not a stored review of that title
Dangling(revs, out) ==
    \/ out.title \notin Titles
    \/ /\ out.op \in {"comment_create", "comment_list"}
       /\ ~\E r \in revs : r.id = out.review /\ r.title = out.title

Nested == {"review_create", "comment_create", "comment_list"}

CommentsUnderOwnTitle ==
    \A c \in comments :
        \E r \in reviews : r.id = c.review /\ r.title = c.title

\* C9 as stated: every nested request with a dangling path reference is
\* answered 404, and every stored comment references a review of the title
\* under which it was created.
C9_DanglingIs404 ==
    /\ (resp.op \in Nested /\ Dangling(reviews, resp)) => resp.status = 404
    /\ CommentsUnderOwnTitle

\* C9 amended: a nested request with a dangling path reference stores
\* nothing and is answered 404 when its payload passes the serializer, 400
\* when it does not (the serializer runs before the lookup); every stored
\* comment references a review of the title under which it was created.
C9_DanglingStoresNothing ==
    /\ []CommentsUnderOwnTitle
    /\ [][(resp'.op \in Nested /\ Dangling(reviews, resp'))
          => LET payloadOk ==
                   CASE resp'.op = "review_create"
                          -> resp'.score >= 1 /\ resp'.score <= 10
                     [] resp'.op = "comment_create" -> resp'.flag
                     [] OTHER -> TRUE
             IN /\ payloadOk => resp'.status = 404
                /\ ~payloadOk => resp'.status = 400
                /\ reviews' = reviews
                /\ comments' = comments]_vars

C9_Witness ==
    /\ resp.op = "comment_create"
    /\ resp.status = 404
    /\ resp.flag
    /\ resp.title \in Titles
    /\ \E r \in reviews : r.id = resp.review /\ r.title # resp.title
    /\ comments # {}

====
